---- MODULE Spec2Model ----
(***************************************************************************)
(* Request approval workflow of pms-be: the supervisor hierarchy           *)
(* (authentication.User), the workflowed Request with its ApprovalHistory  *)
(* (requisition.models) and the handlers of RequestViewSet                 *)
(* (requisition.views).  One request is followed through its life.         *)
(***************************************************************************)
EXTENDS Integers, Sequences, FiniteSets, TLC

\* ------------------------------------------------------------------ bounds
MaxLevel == 3       \* approve is not explored beyond this approval_level
MaxRevisions == 1   \* request_revision is not explored beyond this revision_count
MaxEdits == 1       \* number of supervisor writes explored
MaxCalls == 3       \* number of direct transition_to calls explored
MaxTime == 2        \* the clock is not advanced beyond this instant
MaxRows == 2        \* history rows explored per request of the archived table
MaxSaves == 2       \* supervisor writes of the two workers explored
MaxRaceRows == 4    \* racing calls are not loaded once the history has this many rows

\* ------------------------------------------------------------------- users
None == "none"
Users == {"E", "M", "C", "D", "S", "A"}
Superusers == {"A"}
Purchasers == {"D"}
Creator == "E"
Procs == {1, 2}
RequestIds == {1, 2}   \* ids of the rows of the Request table the archive reads
Times == 0..MaxTime
ApiUsers == {"E", "M"}

\* the supervisor writes explored while the request is in flight: <<user, new>>
Reorganisations ==
  { <<"C", "S">>,     \* S inserted between C and D
    <<"M", None>>,    \* chain cut after M
    <<"E", None>>,    \* creator loses the supervisor
    <<"D", "E">> }    \* would close a cycle

\* the same through a plain save of the user
SavedReorganisations ==
  { <<"C", "S">>, <<"M", "M">> }

is_superuser(u) == u \in Superusers

can_purchase(u) == is_superuser(u) \/ u \in Purchasers

InitialSupervisor ==
  [u \in Users |-> CASE u = "E" -> "M"
                     [] u = "M" -> "C"
                     [] u = "C" -> "D"
                     [] u = "S" -> "D"
                     [] OTHER   -> None]

STATUS_CHOICES ==
  {"draft", "pending", "in_review", "revision_requested", "approved",
   "rejected", "purchasing", "ordered", "delivered", "completed"}

VARIABLES
  supervisor,        \* User.supervisor of every user
  auditLog,          \* AuditLog rows written by change_supervisor
  nEdits,            \* writes made outside the workflow so far: supervisor
                     \* writes and generic updates of the request
  created_by,        \* Request.created_by
  status,            \* Request.status
  approval_level,    \* Request.approval_level
  last_approver,     \* Request.last_approver
  current_approver,  \* Request.current_approver
  revision_count,    \* Request.revision_count
  submitted_at,      \* Request.submitted_at, 0 for null
  history,           \* ApprovalHistory rows of the request, oldest first
  writes,            \* values assigned to Request.status by the last call
  resp,              \* what the last call returned
  session,           \* per worker: the object the call it is serving has loaded
  objects,           \* the Request table as the archive reads it: of every
                     \* row its status and updated_at
  history_rows,      \* per request id, the number of ApprovalHistory rows
  now,               \* timezone.now()
  archive            \* the create_archive run: the requests it has listed

reqVars == <<created_by, status, approval_level, last_approver,
             current_approver, revision_count, submitted_at>>
userVars == <<supervisor, auditLog, nEdits>>
archiveVars == <<objects, history_rows, now, archive>>
vars == <<supervisor, auditLog, nEdits, created_by, status, approval_level,
          last_approver, current_approver, revision_count, submitted_at,
          history, writes, resp, session, objects, history_rows, now, archive>>

\* ----------------------------------------------------------------- helpers
Range(s) == {s[i] : i \in 1..Len(s)}

IndexOf(s, x) == CHOOSE i \in 1..Len(s) : s[i] = x /\ \A j \in 1..(i-1) : s[j] # x

Hang == "hang"

\* the while loop of get_approval_chain; it has no visited set, so a
\* supervisor cycle keeps it running: Hang marks the call that never returns
RECURSIVE ChainWalk(_, _, _)
ChainWalk(sup, current, seen) ==
  IF current = None THEN <<>>
  ELSE IF current \in seen THEN <<Hang>>
  ELSE <<current>> \o ChainWalk(sup, sup[current], seen \cup {current})

\* the chain collected from the creator instead of the creator's supervisor
get_approval_chain_FromCreator(sup, creator) == ChainWalk(sup, creator, {})

get_approval_chain(sup, creator) == ChainWalk(sup, sup[creator], {})

\* get_next_approver that falls back to the creator when the stored
\* current_approver is no longer in the chain
get_next_approver_CreatorWhenUnrouted(sup, creator, st, cur) ==
  IF st = "draft" THEN sup[creator]
  ELSE LET chain == get_approval_chain(sup, creator) IN
       IF cur = None
       THEN (IF chain # <<>> THEN chain[1] ELSE None)
       ELSE IF cur \in Range(chain)
            THEN LET current_index == IndexOf(chain, cur) IN
                 IF current_index + 1 <= Len(chain)
                 THEN chain[current_index + 1] ELSE None
            ELSE creator

get_next_approver(sup, creator, st, cur) ==
  IF st = "draft" THEN sup[creator]
  ELSE LET chain == get_approval_chain(sup, creator) IN
       IF cur = None
       THEN (IF chain # <<>> THEN chain[1] ELSE None)
       ELSE IF cur \in Range(chain)
            THEN LET current_index == IndexOf(chain, cur) IN
                 IF current_index + 1 <= Len(chain)
                 THEN chain[current_index + 1] ELSE None
            ELSE None

\* get_valid_transitions with 'approved' added to the targets of draft
get_valid_transitions_DraftApproved(st) ==
  CASE st = "draft" -> {"pending", "approved"}
    [] st = "pending" -> {"in_review", "approved", "rejected", "revision_requested"}
    [] st = "in_review" -> {"in_review", "approved", "rejected", "revision_requested"}
    [] st = "revision_requested" -> {"pending"}
    [] st = "approved" -> {"purchasing", "rejected"}
    [] st = "purchasing" -> {"ordered", "rejected", "revision_requested"}
    [] st = "ordered" -> {"delivered"}
    [] st = "delivered" -> {"completed"}
    [] OTHER -> {}

get_valid_transitions(st) ==
  CASE st = "draft" -> {"pending"}
    [] st = "pending" -> {"in_review", "approved", "rejected", "revision_requested"}
    [] st = "in_review" -> {"in_review", "approved", "rejected", "revision_requested"}
    [] st = "revision_requested" -> {"pending"}
    [] st = "approved" -> {"purchasing", "rejected"}
    [] st = "purchasing" -> {"ordered", "rejected", "revision_requested"}
    [] st = "ordered" -> {"delivered"}
    [] st = "delivered" -> {"completed"}
    [] st = "rejected" -> {}
    [] st = "completed" -> {}
    [] OTHER -> {}

can_transition_to(st, new_status) == new_status \in get_valid_transitions(st)

action_map(new_status) ==
  CASE new_status = "pending" -> "submitted"
    [] new_status = "in_review" -> "approved"
    [] new_status = "approved" -> "final_approved"
    [] new_status = "rejected" -> "rejected"
    [] new_status = "revision_requested" -> "revision_requested"
    [] new_status = "purchasing" -> "assigned_purchasing"
    [] new_status = "ordered" -> "ordered"
    [] new_status = "delivered" -> "delivered"
    [] new_status = "completed" -> "completed"
    [] OTHER -> new_status

get_approval_level(sup, creator, user) ==
  LET chain == get_approval_chain(sup, creator) IN
  IF user \in Range(chain) THEN IndexOf(chain, user) ELSE 0

\* Request.is_fully_approved is called by the views but its body is not in
\* requisition/models.py; taken from the design: no approver is left at
\* position approval_level of the creator's chain
is_fully_approved(sup, creator, level) ==
  level >= Len(get_approval_chain(sup, creator))

\* what a call hands back: the HTTP status (or 0 for a normal return and 1 for
\* a raised ValueError of a model method), the kind of message, and the users
\* or statuses the message names
Response(op, code, error, expected) ==
  [op |-> op, code |-> code, error |-> error, expected |-> expected,
   from |-> None, to |-> None]

\* ValueError(f"Invalid transition from '{self.status}' to '{new_status}'")
InvalidTransition(op, code, old_status, new_status) ==
  [op |-> op, code |-> code, error |-> "invalid_transition", expected |-> None,
   from |-> old_status, to |-> new_status]

NoSession == [pc |-> "idle"]

\* the table before any archive run: every request just created as a draft
InitArchive ==
  /\ objects = [r \in RequestIds |-> [status |-> "draft", updated_at |-> 0]]
  /\ history_rows = [r \in RequestIds |-> 0]
  /\ now = 0
  /\ archive = [pc |-> "idle"]

Init ==
  /\ supervisor = InitialSupervisor
  /\ auditLog = <<>>
  /\ nEdits = 0
  /\ created_by = Creator
  /\ status = "draft"
  /\ approval_level = 0
  /\ last_approver = None
  /\ current_approver = None
  /\ revision_count = 0
  /\ submitted_at = 0
  /\ history = <<>>
  /\ writes = <<>>
  /\ resp = Response("create", 201, "ok", None)
  /\ session = [p \in Procs |-> NoSession]
  /\ InitArchive

\* ------------------------------------------------------ Request.transition_to
\* the new current_approver chosen by transition_to
transition_current_approver(sup, creator, old_status, new_status, cur) ==
  IF new_status = "pending"
  THEN IF old_status = "draft" THEN sup[creator]
       ELSE IF old_status = "revision_requested"
            THEN LET chain == get_approval_chain(sup, creator) IN
                 IF cur # None /\ cur \in Range(chain) THEN cur
                 ELSE (IF chain # <<>> THEN chain[1] ELSE None)
            ELSE cur
  ELSE cur

\* the row with levels counted from 1 for everybody, the creator included
transition_row_CountFromOne(sup, creator, new_status, user) ==
  [user |-> user, action |-> action_map(new_status),
   level |-> get_approval_level(sup, creator, user) + 1]

\* the ApprovalHistory row transition_to creates
transition_row(sup, creator, new_status, user) ==
  [user |-> user, action |-> action_map(new_status),
   level |-> get_approval_level(sup, creator, user)]

\* a failed call: nothing is written, only the response differs
Fail(r) ==
  /\ resp' = r
  /\ writes' = <<>>
  /\ UNCHANGED <<userVars, reqVars, history, session, archiveVars>>

\* ------------------------------------------------------- RequestViewSet.submit
\* submit without the check that the actor is the creator
submit_refusal_NoCreatorCheck(creator, st, actor) ==
  IF ~is_superuser(actor) /\ creator # actor
  THEN Response("submit", 404, "not_found", None)
  ELSE IF st \notin {"draft", "revision_requested"}
  THEN Response("submit", 400, "bad_status", None)
  ELSE Response("submit", 200, "ok", None)

\* the early returns of submit: get_object() hides the request from a user
\* who is neither its creator nor a superuser
submit_refusal(creator, st, actor) ==
  IF ~is_superuser(actor) /\ creator # actor
  THEN Response("submit", 404, "not_found", None)
  ELSE IF creator # actor
  THEN Response("submit", 403, "not_creator", None)
  ELSE IF st \notin {"draft", "revision_requested"}
  THEN Response("submit", 400, "bad_status", None)
  ELSE Response("submit", 200, "ok", None)

\* submit that starts the history of the request afresh
Submit_ClearsHistory(actor) ==
  LET r == submit_refusal(created_by, status, actor) IN
  IF r.code # 200 THEN Fail(r)
  ELSE IF ~can_transition_to(status, "pending")
  THEN Fail(InvalidTransition("submit", 400, status, "pending"))
  ELSE /\ status' = "pending"
       /\ current_approver' =
            transition_current_approver(supervisor, created_by, status, "pending", current_approver)
       /\ history' = <<transition_row(supervisor, created_by, "pending", actor)>>
       /\ submitted_at' = submitted_at + 1
       /\ writes' = <<"pending">>
       /\ resp' = r
       /\ UNCHANGED <<userVars, created_by, approval_level, last_approver,
                      revision_count, session, archiveVars>>

Submit(actor) ==
  LET r == submit_refusal(created_by, status, actor) IN
  IF r.code # 200 THEN Fail(r)
  ELSE IF ~can_transition_to(status, "pending")
  THEN Fail(InvalidTransition("submit", 400, status, "pending"))
  ELSE /\ status' = "pending"
       /\ current_approver' =
            transition_current_approver(supervisor, created_by, status, "pending", current_approver)
       /\ history' = Append(history, transition_row(supervisor, created_by, "pending", actor))
       /\ submitted_at' = submitted_at + 1
       /\ writes' = <<"pending">>
       /\ resp' = r
       /\ UNCHANGED <<userVars, created_by, approval_level, last_approver,
                      revision_count, session, archiveVars>>

\* ------------------------------------------------------ RequestViewSet.approve
\* the new status decided on the level before the increment
approve_new_status_BeforeIncrement(sup, creator, level) ==
  IF is_fully_approved(sup, creator, level - 1) THEN "approved" ELSE "in_review"

\* the status approve moves to, decided after approval_level was incremented
approve_new_status(sup, creator, level) ==
  IF is_fully_approved(sup, creator, level) THEN "approved" ELSE "in_review"

\* the history row that approve leaves: transition_to's row when the status
\* changes, the handler's own row when it stays in_review
approve_row(sup, creator, old_status, new_status, user, level) ==
  IF old_status # new_status
  THEN transition_row(sup, creator, new_status, user)
  ELSE [user |-> user, action |-> "approved", level |-> level]

\* approve without the early return for an already approved request
approve_refusal_ApprovedUnchecked(sup, creator, st, cur, actor) ==
  LET next_approver == get_next_approver(sup, creator, st, cur) IN
  IF st \notin {"pending", "in_review", "approved"}
  THEN (IF st = "draft" THEN Response("approve", 403, "draft", None)
        ELSE Response("approve", 400, "bad_status", None))
  ELSE IF next_approver # actor /\ ~is_superuser(actor)
       THEN (IF next_approver # None
             THEN Response("approve", 403, "pending_from", next_approver)
             ELSE Response("approve", 403, "already_fully_approved", None))
       ELSE Response("approve", 200, "ok", None)

\* approve that admits every member of the chain (the test of can_approve)
\* instead of the next approver only
approve_refusal_AnyChainMember(sup, creator, st, cur, actor) ==
  LET next_approver == get_next_approver(sup, creator, st, cur) IN
  IF st \notin {"pending", "in_review"}
  THEN (IF st = "draft" THEN Response("approve", 403, "draft", None)
        ELSE IF st = "approved"
             THEN Response("approve", 403, "already_fully_approved", None)
             ELSE Response("approve", 400, "bad_status", None))
  ELSE IF actor \notin Range(get_approval_chain(sup, creator)) /\ ~is_superuser(actor)
       THEN (IF next_approver # None
             THEN Response("approve", 403, "pending_from", next_approver)
             ELSE Response("approve", 403, "already_fully_approved", None))
       ELSE Response("approve", 200, "ok", None)

\* approve that admits everybody when the request has no next approver
approve_refusal_OpenWhenUnrouted(sup, creator, st, cur, actor) ==
  LET next_approver == get_next_approver(sup, creator, st, cur) IN
  IF st \notin {"pending", "in_review"}
  THEN (IF st = "draft" THEN Response("approve", 403, "draft", None)
        ELSE IF st = "approved"
             THEN Response("approve", 403, "already_fully_approved", None)
             ELSE Response("approve", 400, "bad_status", None))
  ELSE IF next_approver # None /\ next_approver # actor /\ ~is_superuser(actor)
       THEN Response("approve", 403, "pending_from", next_approver)
       ELSE Response("approve", 200, "ok", None)

\* the early returns of approve, evaluated on a loaded request
approve_refusal(sup, creator, st, cur, actor) ==
  LET next_approver == get_next_approver(sup, creator, st, cur) IN
  IF st \notin {"pending", "in_review"}
  THEN (IF st = "draft" THEN Response("approve", 403, "draft", None)
        ELSE IF st = "approved"
             THEN Response("approve", 403, "already_fully_approved", None)
             ELSE Response("approve", 400, "bad_status", None))
  ELSE IF next_approver # actor /\ ~is_superuser(actor)
       THEN (IF next_approver # None
             THEN Response("approve", 403, "pending_from", next_approver)
             ELSE Response("approve", 403, "already_fully_approved", None))
       ELSE Response("approve", 200, "ok", None)

\* approve that does not count the approval of a superuser
Approve_OverrideNotCounted(actor) ==
  LET r == approve_refusal(supervisor, created_by, status, current_approver, actor)
      level == IF is_superuser(actor) THEN approval_level ELSE approval_level + 1
      new_status == approve_new_status(supervisor, created_by, level)
  IN IF r.code # 200 THEN Fail(r)
     ELSE IF status # new_status /\ ~can_transition_to(status, new_status)
     THEN Fail(InvalidTransition("approve", 400, status, new_status))
     ELSE /\ approval_level < MaxLevel
          /\ last_approver' = actor
          /\ approval_level' = level
          /\ status' = new_status
          /\ history' = Append(history,
                approve_row(supervisor, created_by, status, new_status, actor, level))
          /\ writes' = <<new_status>>
          /\ resp' = r
          /\ UNCHANGED <<userVars, created_by, current_approver, revision_count,
                         submitted_at, session, archiveVars>>

Approve(actor) ==
  LET r == approve_refusal(supervisor, created_by, status, current_approver, actor)
      new_status == approve_new_status(supervisor, created_by, approval_level + 1)
  IN IF r.code # 200 THEN Fail(r)
     ELSE IF status # new_status /\ ~can_transition_to(status, new_status)
     THEN Fail(InvalidTransition("approve", 400, status, new_status))
     ELSE /\ approval_level < MaxLevel
          /\ last_approver' = actor
          /\ approval_level' = approval_level + 1
          /\ status' = new_status
          /\ history' = Append(history,
                approve_row(supervisor, created_by, status, new_status, actor,
                            approval_level + 1))
          /\ writes' = <<new_status>>
          /\ resp' = r
          /\ UNCHANGED <<userVars, created_by, current_approver, revision_count,
                         submitted_at, session, archiveVars>>

\* ------------------------------------------------------- RequestViewSet.reject
Reject(actor) ==
  LET next_approver == get_next_approver(supervisor, created_by, status, current_approver) IN
  IF status \notin {"pending", "in_review", "approved", "purchasing"}
  THEN Fail(Response("reject", 400, "bad_status", None))
  ELSE IF next_approver # actor /\ ~is_superuser(actor)
  THEN Fail(Response("reject", 403, "not_authorized", None))
  ELSE IF ~can_transition_to(status, "rejected")
  THEN Fail(InvalidTransition("reject", 400, status, "rejected"))
  ELSE /\ status' = "rejected"
       /\ history' = Append(history, transition_row(supervisor, created_by, "rejected", actor))
       /\ writes' = <<"rejected">>
       /\ resp' = Response("reject", 200, "ok", None)
       /\ UNCHANGED <<userVars, created_by, approval_level, last_approver,
                      current_approver, revision_count, submitted_at, session, archiveVars>>

\* --------------------------------------------- RequestViewSet.request_revision
\* request_revision that also restarts the count of approvals
RequestRevision_ResetsLevel(actor) ==
  LET next_approver == get_next_approver(supervisor, created_by, status, current_approver) IN
  IF next_approver # actor /\ ~is_superuser(actor)
  THEN Fail(Response("request_revision", 403, "not_authorized", None))
  ELSE IF status \notin {"pending", "in_review"}
  THEN Fail(Response("request_revision", 400, "bad_status", None))
  ELSE IF ~can_transition_to(status, "revision_requested")
  THEN Fail(InvalidTransition("request_revision", 400, status, "revision_requested"))
  ELSE /\ revision_count < MaxRevisions
       /\ status' = "revision_requested"
       /\ history' = Append(history,
             transition_row(supervisor, created_by, "revision_requested", actor))
       /\ revision_count' = revision_count + 1
       /\ approval_level' = 0
       /\ last_approver' = None
       /\ writes' = <<"revision_requested">>
       /\ resp' = Response("request_revision", 200, "ok", None)
       /\ UNCHANGED <<userVars, created_by, current_approver, submitted_at, session, archiveVars>>

RequestRevision(actor) ==
  LET next_approver == get_next_approver(supervisor, created_by, status, current_approver) IN
  IF next_approver # actor /\ ~is_superuser(actor)
  THEN Fail(Response("request_revision", 403, "not_authorized", None))
  ELSE IF status \notin {"pending", "in_review"}
  THEN Fail(Response("request_revision", 400, "bad_status", None))
  ELSE IF ~can_transition_to(status, "revision_requested")
  THEN Fail(InvalidTransition("request_revision", 400, status, "revision_requested"))
  ELSE /\ revision_count < MaxRevisions
       /\ status' = "revision_requested"
       /\ history' = Append(history,
             transition_row(supervisor, created_by, "revision_requested", actor))
       /\ revision_count' = revision_count + 1
       /\ writes' = <<"revision_requested">>
       /\ resp' = Response("request_revision", 200, "ok", None)
       /\ UNCHANGED <<userVars, created_by, approval_level, last_approver,
                      current_approver, submitted_at, session, archiveVars>>

\* ----------------------------------------------- RequestViewSet.mark_purchased
\* mark_purchased writing 'ordered' where it should write 'purchasing'
purchased_intermediate_Ordered(st) == IF st = "approved" THEN "ordered" ELSE st

\* the status mark_purchased writes directly before it calls transition_to
purchased_intermediate(st) == IF st = "approved" THEN "purchasing" ELSE st

\* mark_purchased without the test of the purchasing permission
MarkPurchased_AnyActor(actor) ==
  IF status \notin {"approved", "purchasing"}
  THEN Fail(Response("mark_purchased", 400, "bad_status", None))
  ELSE LET mid == purchased_intermediate(status) IN
       /\ status' = "ordered"
       /\ history' = Append(history, transition_row(supervisor, created_by, "ordered", actor))
       /\ writes' = IF status = "approved" THEN <<mid, "ordered">> ELSE <<"ordered">>
       /\ resp' = Response("mark_purchased", 200, "ok", None)
       /\ UNCHANGED <<userVars, created_by, approval_level, last_approver,
                      current_approver, revision_count, submitted_at, session, archiveVars>>

MarkPurchased(actor) ==
  IF ~(is_superuser(actor) \/ can_purchase(actor))
  THEN Fail(Response("mark_purchased", 403, "not_purchasing", None))
  ELSE IF status \notin {"approved", "purchasing"}
  THEN Fail(Response("mark_purchased", 400, "bad_status", None))
  ELSE LET mid == purchased_intermediate(status) IN
       IF ~can_transition_to(mid, "ordered")
       THEN \* the direct write of 'purchasing' is committed, the handler
            \* returns 400 from inside the atomic block
            /\ status' = mid
            /\ writes' = IF status = "approved" THEN <<mid>> ELSE <<>>
            /\ resp' = InvalidTransition("mark_purchased", 400, mid, "ordered")
            /\ UNCHANGED <<userVars, created_by, approval_level, last_approver,
                           current_approver, revision_count, submitted_at,
                           history, session, archiveVars>>
       ELSE
       /\ status' = "ordered"
       /\ history' = Append(history, transition_row(supervisor, created_by, "ordered", actor))
       /\ writes' = IF status = "approved" THEN <<mid, "ordered">> ELSE <<"ordered">>
       /\ resp' = Response("mark_purchased", 200, "ok", None)
       /\ UNCHANGED <<userVars, created_by, approval_level, last_approver,
                      current_approver, revision_count, submitted_at, session, archiveVars>>

\* ----------------------------------------------- RequestViewSet.mark_delivered
\* mark_delivered without the test of the purchasing permission
MarkDelivered_AnyActor(actor) ==
  IF status # "ordered"
  THEN Fail(Response("mark_delivered", 400, "bad_status", None))
  ELSE /\ status' = "delivered"
       /\ history' = Append(history, transition_row(supervisor, created_by, "delivered", actor))
       /\ writes' = <<"delivered">>
       /\ resp' = Response("mark_delivered", 200, "ok", None)
       /\ UNCHANGED <<userVars, created_by, approval_level, last_approver,
                      current_approver, revision_count, submitted_at, session, archiveVars>>

MarkDelivered(actor) ==
  IF ~(is_superuser(actor) \/ can_purchase(actor))
  THEN Fail(Response("mark_delivered", 403, "not_purchasing", None))
  ELSE IF status # "ordered"
  THEN Fail(Response("mark_delivered", 400, "bad_status", None))
  ELSE IF ~can_transition_to(status, "delivered")
  THEN Fail(InvalidTransition("mark_delivered", 400, status, "delivered"))
  ELSE /\ status' = "delivered"
       /\ history' = Append(history, transition_row(supervisor, created_by, "delivered", actor))
       /\ writes' = <<"delivered">>
       /\ resp' = Response("mark_delivered", 200, "ok", None)
       /\ UNCHANGED <<userVars, created_by, approval_level, last_approver,
                      current_approver, revision_count, submitted_at, session, archiveVars>>

\* ------------------------------------------- User._validate_supervisor_assignment
\* the walk without the test that the chain leads back to the user
RECURSIVE validate_walk_NoCircularCheck(_, _, _, _)
validate_walk_NoCircularCheck(sup, self, current, visited) ==
  IF current = None THEN "ok"
  ELSE IF current \in visited THEN "existing_cycle"
  ELSE validate_walk_NoCircularCheck(sup, self, sup[current], visited \cup {current})

RECURSIVE validate_walk(_, _, _, _)
validate_walk(sup, self, current, visited) ==
  IF current = None THEN "ok"
  ELSE IF current \in visited THEN "existing_cycle"
  ELSE IF sup[current] # None /\ sup[current] = self THEN "circular"
  ELSE validate_walk(sup, self, sup[current], visited \cup {current})

\* the validation without the test for self-supervision
validate_supervisor_assignment_NoSelfCheck(sup, self, new_supervisor) ==
  IF new_supervisor = None THEN "ok"
  ELSE validate_walk(sup, self, new_supervisor, {})

validate_supervisor_assignment(sup, self, new_supervisor) ==
  IF new_supervisor = None THEN "ok"
  ELSE IF new_supervisor = self THEN "self_supervision"
  ELSE validate_walk(sup, self, new_supervisor, {})

\* ------------------------------------------------------------------ User.save
\* user.supervisor = new_supervisor; user.save()
SaveUser(user, new_supervisor) ==
  LET v == validate_supervisor_assignment(supervisor, user, new_supervisor) IN
  /\ nEdits < MaxEdits
  /\ nEdits' = nEdits + 1
  /\ writes' = <<>>
  /\ IF v # "ok"
     THEN /\ resp' = Response("save", 1, v, new_supervisor)
          /\ UNCHANGED <<supervisor, auditLog>>
     ELSE /\ supervisor' = [supervisor EXCEPT ![user] = new_supervisor]
          /\ resp' = Response("save", 0, "ok", new_supervisor)
          /\ UNCHANGED auditLog
  /\ UNCHANGED <<reqVars, history, session, archiveVars>>

\* ------------------------------------- User.change_supervisor, remove_supervisor
audit_action(old_supervisor, new_supervisor) ==
  IF new_supervisor = None THEN "supervisor_removed"
  ELSE IF old_supervisor = None THEN "supervisor_assigned"
  ELSE "supervisor_changed"

\* change_supervisor that also restarts the approval of the request
ChangeSupervisor_ResetsApproval(user, new_supervisor) ==
  LET v == validate_supervisor_assignment(supervisor, user, new_supervisor) IN
  /\ nEdits < MaxEdits
  /\ nEdits' = nEdits + 1
  /\ writes' = <<>>
  /\ IF supervisor[user] = new_supervisor
     THEN /\ resp' = Response("change_supervisor", 0, "no_change", new_supervisor)
          /\ UNCHANGED <<supervisor, auditLog, reqVars>>
     ELSE IF v # "ok"
     THEN /\ resp' = Response("change_supervisor", 1, v, new_supervisor)
          /\ UNCHANGED <<supervisor, auditLog, reqVars>>
     ELSE /\ supervisor' = [supervisor EXCEPT ![user] = new_supervisor]
          /\ auditLog' = Append(auditLog,
                [user |-> user,
                 action |-> audit_action(supervisor[user], new_supervisor),
                 old |-> supervisor[user], new |-> new_supervisor])
          /\ resp' = Response("change_supervisor", 0, "ok", new_supervisor)
          /\ approval_level' = 0
          /\ last_approver' = None
          /\ UNCHANGED <<created_by, status, current_approver, revision_count,
                         submitted_at>>
  /\ UNCHANGED <<history, session, archiveVars>>

\* change_supervisor that writes its audit row before the test for no change
ChangeSupervisor_LogsNoChange(user, new_supervisor) ==
  LET v == validate_supervisor_assignment(supervisor, user, new_supervisor) IN
  /\ nEdits < MaxEdits
  /\ nEdits' = nEdits + 1
  /\ writes' = <<>>
  /\ IF supervisor[user] # new_supervisor /\ v # "ok"
     THEN /\ resp' = Response("change_supervisor", 1, v, new_supervisor)
          /\ UNCHANGED <<supervisor, auditLog>>
     ELSE /\ supervisor' = [supervisor EXCEPT ![user] = new_supervisor]
          /\ auditLog' = Append(auditLog,
                [user |-> user,
                 action |-> audit_action(supervisor[user], new_supervisor),
                 old |-> supervisor[user], new |-> new_supervisor])
          /\ resp' = Response("change_supervisor", 0,
                              IF supervisor[user] = new_supervisor
                              THEN "no_change" ELSE "ok", new_supervisor)
  /\ UNCHANGED <<reqVars, history, session, archiveVars>>

ChangeSupervisor(user, new_supervisor) ==
  LET v == validate_supervisor_assignment(supervisor, user, new_supervisor) IN
  /\ nEdits < MaxEdits
  /\ nEdits' = nEdits + 1
  /\ writes' = <<>>
  /\ IF supervisor[user] = new_supervisor
     THEN /\ resp' = Response("change_supervisor", 0, "no_change", new_supervisor)
          /\ UNCHANGED <<supervisor, auditLog>>
     ELSE IF v # "ok"
     THEN /\ resp' = Response("change_supervisor", 1, v, new_supervisor)
          /\ UNCHANGED <<supervisor, auditLog>>
     ELSE /\ supervisor' = [supervisor EXCEPT ![user] = new_supervisor]
          /\ auditLog' = Append(auditLog,
                [user |-> user,
                 action |-> audit_action(supervisor[user], new_supervisor),
                 old |-> supervisor[user], new |-> new_supervisor])
          /\ resp' = Response("change_supervisor", 0, "ok", new_supervisor)
  /\ UNCHANGED <<reqVars, history, session, archiveVars>>

\* ------------------------------------- Request.transition_to called directly
TransitionTo(new_status, user) ==
  /\ Len(history) < MaxCalls
  /\ IF ~can_transition_to(status, new_status)
     THEN Fail(InvalidTransition("transition_to", 1, status, new_status))
     ELSE /\ status' = new_status
          /\ current_approver' =
               transition_current_approver(supervisor, created_by, status,
                                           new_status, current_approver)
          /\ history' = Append(history,
                transition_row(supervisor, created_by, new_status, user))
          /\ writes' = <<new_status>>
          /\ resp' = Response("transition_to", 0, "ok", None)
          /\ UNCHANGED <<userVars, created_by, approval_level, last_approver,
                         revision_count, submitted_at, session, archiveVars>>

\* ------------------------------- RequestViewSet.approve run by two workers
\* Request.objects.get(pk=pk) and the checks made on the loaded object; the
\* supervisor objects reached while checking stay cached on it
ApproveLoad(p, actor) ==
  LET r == approve_refusal(supervisor, created_by, status, current_approver, actor) IN
  /\ session[p].pc = "idle"
  /\ IF r.code # 200 THEN Fail(r)
     ELSE /\ approval_level < MaxLevel
          /\ session' = [session EXCEPT ![p] =
               [pc |-> "validated", actor |-> actor, supervisor |-> supervisor,
                status |-> status, approval_level |-> approval_level,
                current_approver |-> current_approver,
                revision_count |-> revision_count,
                submitted_at |-> submitted_at]]
          /\ UNCHANGED <<userVars, reqVars, history, writes, resp, archiveVars>>

\* the atomic block of approve deciding the new status on the hierarchy stored
\* when it commits instead of the one its checks have read
ApproveCommit_FreshHierarchy(p) ==
  LET o == session[p]
      new_status == approve_new_status(supervisor, created_by, o.approval_level + 1)
  IN /\ o.pc = "validated"
     /\ session' = [session EXCEPT ![p] = NoSession]
     /\ IF o.status # new_status /\ ~can_transition_to(o.status, new_status)
        THEN /\ resp' = InvalidTransition("approve", 400, o.status, new_status)
             /\ writes' = <<>>
             /\ UNCHANGED <<userVars, reqVars, history, archiveVars>>
        ELSE /\ last_approver' = o.actor
             /\ approval_level' = o.approval_level + 1
             /\ status' = new_status
             /\ current_approver' = o.current_approver
             /\ revision_count' = o.revision_count
             /\ submitted_at' = o.submitted_at
             /\ history' = Append(history,
                   approve_row(supervisor, created_by, o.status, new_status,
                               o.actor, o.approval_level + 1))
             /\ writes' = <<new_status>>
             /\ resp' = Response("approve", 200, "ok", None)
             /\ UNCHANGED <<userVars, created_by, archiveVars>>

\* the atomic block of approve: save() writes every column of the loaded
\* object back, then the history row is inserted
ApproveCommit(p) ==
  LET o == session[p]
      new_status == approve_new_status(o.supervisor, created_by, o.approval_level + 1)
  IN /\ o.pc = "validated"
     /\ session' = [session EXCEPT ![p] = NoSession]
     /\ IF o.status # new_status /\ ~can_transition_to(o.status, new_status)
        THEN /\ resp' = InvalidTransition("approve", 400, o.status, new_status)
             /\ writes' = <<>>
             /\ UNCHANGED <<userVars, reqVars, history, archiveVars>>
        ELSE /\ last_approver' = o.actor
             /\ approval_level' = o.approval_level + 1
             /\ status' = new_status
             /\ current_approver' = o.current_approver
             /\ revision_count' = o.revision_count
             /\ submitted_at' = o.submitted_at
             /\ history' = Append(history,
                   approve_row(o.supervisor, created_by, o.status, new_status,
                               o.actor, o.approval_level + 1))
             /\ writes' = <<new_status>>
             /\ resp' = Response("approve", 200, "ok", None)
             /\ UNCHANGED <<userVars, created_by, archiveVars>>

\* ---------------------------------- RequestViewSet.update, partial_update
\* PUT/PATCH on the request: get_object() admits the creator and superusers,
\* RequestUpdateSerializer accepts 'status' and save() stores it as given
UpdateStatus(actor, new_status) ==
  /\ nEdits < MaxEdits
  /\ IF ~is_superuser(actor) /\ created_by # actor
     THEN /\ Fail(Response("update", 404, "not_found", None))
     ELSE /\ status' = new_status
          /\ nEdits' = nEdits + 1
          /\ writes' = <<new_status>>
          /\ resp' = Response("update", 200, "ok", None)
          /\ UNCHANGED <<supervisor, auditLog, created_by, approval_level,
                         last_approver, current_approver, revision_count,
                         submitted_at, history, session, archiveVars>>

\* ------------------------------------------ calls the viewset does not route
\* POST .../mark-completed/: RequestViewSet declares no such action, the
\* router answers 404 and nothing is written
MarkCompleted(actor) ==
  Fail(Response("mark_completed", 404, "not_found", None))

\* ------------------------------------------ RequestViewSet.pending_approvals
\* whether the request is in the list the handler returns to the user
pending_approvals(sup, creator, st, cur, user) ==
  /\ st \in {"pending", "in_review"}
  /\ get_next_approver(sup, creator, st, cur) = user

PendingApprovals(user) ==
  /\ resp' = Response("pending_approvals", 200, "ok",
                      <<user, pending_approvals(supervisor, created_by, status,
                                                current_approver, user)>>)
  /\ writes' = <<>>
  /\ UNCHANGED <<userVars, reqVars, history, session, archiveVars>>

\* ------------------------------------- a database error inside a handler
\* the handlers that write inside 'with transaction.atomic()', except submit
in_atomic_block_SubmitOutside(op) == op # "submit"

\* whether the handler's writes are inside 'with transaction.atomic()'
in_atomic_block(op) ==
  op \in {"submit", "approve", "reject", "request_revision", "mark_purchased",
          "mark_delivered"}

\* the insert of the history row fails after transition_to saved the request:
\* the exception leaves the atomic block, which rolls the save back, and the
\* call is answered 500; outside an atomic block the save would stay
CrashBeforeHistory(op, new_status) ==
  /\ resp' = Response(op, 500, "server_error", None)
  /\ IF in_atomic_block(op)
     THEN /\ writes' = <<>>
          /\ UNCHANGED <<userVars, reqVars, history, session, archiveVars>>
     ELSE /\ status' = new_status
          /\ current_approver' =
               transition_current_approver(supervisor, created_by, status,
                                           new_status, current_approver)
          /\ writes' = <<new_status>>
          /\ UNCHANGED <<userVars, created_by, approval_level, last_approver,
                         revision_count, submitted_at, history, session, archiveVars>>

SubmitCrash(actor) ==
  /\ submit_refusal(created_by, status, actor).code = 200
  /\ CrashBeforeHistory("submit", "pending")

MarkPurchasedCrash(actor) ==
  /\ is_superuser(actor) \/ can_purchase(actor)
  /\ status \in {"approved", "purchasing"}
  /\ CrashBeforeHistory("mark_purchased", "ordered")

\* -------------------------------------------- the hierarchy, on every graph
Absent == "absent"   \* supervisor[u] of a user whose row does not exist yet

HierUsers == {"E", "M", "C", "D"}
NewUser == "S"

\* the while loop of User.get_hierarchy_chain, which keeps a visited set
RECURSIVE HierarchyWalk(_, _, _)
HierarchyWalk(sup, current, visited) ==
  IF current = None \/ current \in visited THEN <<>>
  ELSE <<current>> \o HierarchyWalk(sup, sup[current], visited \cup {current})

get_hierarchy_chain(sup, user) == <<user>> \o HierarchyWalk(sup, sup[user], {user})

\* User.objects.create_user(..., supervisor=new_supervisor): save() validates
\* while the new row has no id yet, so no id met on the walk equals it
CreateUser(user, new_supervisor) ==
  LET v == validate_supervisor_assignment(supervisor, None, new_supervisor) IN
  /\ supervisor[user] = Absent
  /\ nEdits < MaxEdits
  /\ nEdits' = nEdits + 1
  /\ writes' = <<>>
  /\ IF v # "ok"
     THEN /\ resp' = Response("create_user", 1, v, new_supervisor)
          /\ UNCHANGED <<supervisor, auditLog>>
     ELSE /\ supervisor' = [supervisor EXCEPT ![user] = new_supervisor]
          /\ resp' = Response("create_user", 0, "ok", new_supervisor)
          /\ UNCHANGED auditLog
  /\ UNCHANGED <<reqVars, history, session, archiveVars>>

\* request.get_approval_chain() called on the stored graph
GetApprovalChain ==
  LET c == get_approval_chain(supervisor, created_by) IN
  /\ resp' = IF Hang \in Range(c)
             THEN Response("get_approval_chain", 1, "never_returns", None)
             ELSE Response("get_approval_chain", 0, "ok", c)
  /\ writes' = <<>>
  /\ UNCHANGED <<userVars, reqVars, history, session, archiveVars>>

\* user.get_hierarchy_chain() called on the stored graph
GetHierarchyChain(user) ==
  /\ supervisor[user] # Absent
  /\ resp' = Response("get_hierarchy_chain", 0, "ok",
                      get_hierarchy_chain(supervisor, user))
  /\ writes' = <<>>
  /\ UNCHANGED <<userVars, reqVars, history, session, archiveVars>>

Next ==
  \/ \E a \in Users : Submit(a)
  \/ \E a \in Users : Approve(a)
  \/ \E a \in Users : Reject(a)
  \/ \E a \in Users : RequestRevision(a)
  \/ \E a \in Users : MarkPurchased(a)
  \/ \E a \in Users : MarkDelivered(a)
  \/ \E e \in SavedReorganisations : SaveUser(e[1], e[2])
  \/ \E e \in Reorganisations : ChangeSupervisor(e[1], e[2])

Spec == Init /\ [][Next]_vars

\* two workers serving approve calls at the same time
NextConcurrent ==
  \/ \E a \in Users : Submit(a)
  \/ \E p \in Procs, a \in Users : ApproveLoad(p, a)
  \/ \E p \in Procs : ApproveCommit(p)

SpecConcurrent == Init /\ [][NextConcurrent]_vars

\* the model method called directly, as the model tests do
NextModelAPI ==
  \E s \in STATUS_CHOICES, u \in ApiUsers : TransitionTo(s, u)

SpecModelAPI == Init /\ [][NextModelAPI]_vars

\* the supervisor writes, one after the other, from every acyclic hierarchy of
\* HierUsers; NewUser is created on the way
Reaches(sup, from, to) == to \in Range(HierarchyWalk(sup, sup[from], {}))

Acyclic(sup) ==
  \A u \in Users : sup[u] \notin {None, Absent} => ~Reaches(sup, u, u)

HierarchyGraphs ==
  { g \in [Users -> Users \cup {None, Absent}] :
      /\ \A u \in HierUsers : g[u] \in HierUsers \cup {None}
      /\ g[NewUser] = Absent
      /\ \A u \in Users \ (HierUsers \cup {NewUser}) : g[u] = None }

Existing(sup) == {u \in Users : sup[u] # Absent}

InitHierarchy ==
  /\ supervisor \in {g \in HierarchyGraphs : Acyclic(g)}
  /\ auditLog = <<>>
  /\ nEdits = 0
  /\ created_by = Creator
  /\ status = "draft"
  /\ approval_level = 0
  /\ last_approver = None
  /\ current_approver = None
  /\ revision_count = 0
  /\ submitted_at = 0
  /\ history = <<>>
  /\ writes = <<>>
  /\ resp = Response("create", 201, "ok", None)
  /\ session = [p \in Procs |-> NoSession]
  /\ InitArchive

NextHierarchy ==
  \/ \E n \in (Existing(supervisor) \cap HierUsers) \cup {None} :
        CreateUser(NewUser, n)
  \/ \E u \in Existing(supervisor) \cap (HierUsers \cup {NewUser}),
        n \in (Existing(supervisor) \cap (HierUsers \cup {NewUser})) \cup {None} :
        SaveUser(u, n)
  \/ \E u \in Existing(supervisor) \cap (HierUsers \cup {NewUser}),
        n \in (Existing(supervisor) \cap (HierUsers \cup {NewUser})) \cup {None} :
        ChangeSupervisor(u, n)
  \/ GetApprovalChain
  \/ \E u \in HierUsers : GetHierarchyChain(u)

SpecHierarchy == InitHierarchy /\ [][NextHierarchy]_vars

\* the chain functions on a hierarchy that was corrupted outside of save()
InitCorrupted ==
  /\ supervisor \in {g \in [Users -> Users \cup {None}] :
                       /\ \A u \in HierUsers : g[u] \in HierUsers \cup {None}
                       /\ \A u \in Users \ HierUsers : g[u] = None}
  /\ auditLog = <<>>
  /\ nEdits = 0
  /\ created_by \in HierUsers
  /\ status = "draft"
  /\ approval_level = 0
  /\ last_approver = None
  /\ current_approver = None
  /\ revision_count = 0
  /\ submitted_at = 0
  /\ history = <<>>
  /\ writes = <<>>
  /\ resp = Response("create", 201, "ok", None)
  /\ session = [p \in Procs |-> NoSession]
  /\ InitArchive

NextCorrupted ==
  \/ GetApprovalChain
  \/ \E u \in HierUsers : GetHierarchyChain(u)

SpecCorrupted == InitCorrupted /\ [][NextCorrupted]_vars

\* the statuses explored as input of the generic update: the one no handler
\* leaves the request in, and the last one
UpdateStatuses == {"purchasing", "completed"}

\* the handlers together with the generic update of the request
NextUpdate ==
  \/ \E a \in Users : Submit(a)
  \/ \E a \in Users : Approve(a)
  \/ \E a \in Users : Reject(a)
  \/ \E a \in Users : RequestRevision(a)
  \/ \E a \in Users : MarkPurchased(a)
  \/ \E a \in Users : MarkDelivered(a)
  \/ \E a \in Users, s \in UpdateStatuses : UpdateStatus(a, s)

SpecUpdate == Init /\ [][NextUpdate]_vars

\* the handlers on an unchanging hierarchy, with the listing of pending
\* approvals, the call that is not routed and the database errors
NextDesk ==
  \/ \E a \in Users : Submit(a)
  \/ \E a \in Users : Approve(a)
  \/ \E a \in Users : Reject(a)
  \/ \E a \in Users : RequestRevision(a)
  \/ \E a \in Users : MarkPurchased(a)
  \/ \E a \in Users : MarkDelivered(a)
  \/ \E a \in Users : MarkCompleted(a)
  \/ \E a \in Users : PendingApprovals(a)
  \/ \E a \in Users : SubmitCrash(a)
  \/ \E a \in Users : MarkPurchasedCrash(a)

SpecDesk == Init /\ [][NextDesk]_vars

\* ------------------------------------------------------------ ArchiveService
\* Request.objects.filter(status='completed', updated_at__gte=period_start,
\* updated_at__lte=period_end): the ids of the rows returned
get_completed_requests_in_period(objs, period_start, period_end) ==
  {r \in DOMAIN objs : /\ objs[r].status = "completed"
                       /\ objs[r].updated_at >= period_start
                       /\ objs[r].updated_at <= period_end}

\* delete_archived_requests: the ApprovalHistory rows left per request id
delete_history(rows, request_ids) ==
  [r \in DOMAIN rows |-> IF r \in request_ids THEN 0 ELSE rows[r]]

\* delete_archived_requests: the Request rows left
delete_requests(objs, request_ids) ==
  [r \in (DOMAIN objs) \ request_ids |-> objs[r]]

\* time passes
Tick ==
  /\ now < MaxTime
  /\ now' = now + 1
  /\ UNCHANGED <<userVars, reqVars, history, writes, resp, session,
                 objects, history_rows, archive>>

\* Request.transition_to on a row of the table: the status is saved
\* (updated_at is auto_now) and one history row is inserted
TableTransitionTo(r, new_status) ==
  /\ r \in DOMAIN objects
  /\ history_rows[r] < MaxRows
  /\ can_transition_to(objects[r].status, new_status)
  /\ objects' = [objects EXCEPT ![r] = [status |-> new_status, updated_at |-> now]]
  /\ history_rows' = [history_rows EXCEPT ![r] = @ + 1]
  /\ UNCHANGED <<userVars, reqVars, history, writes, resp, session, now, archive>>

\* PUT/PATCH on a row of the table: the status is stored as sent, no history
\* row is written
TableUpdate(r, new_status) ==
  /\ r \in DOMAIN objects
  /\ objects' = [objects EXCEPT ![r] = [status |-> new_status, updated_at |-> now]]
  /\ UNCHANGED <<userVars, reqVars, history, writes, resp, session,
                 history_rows, now, archive>>

\* create_archive up to the listing: requests = list(query); nothing to
\* archive returns None
ArchiveList(period_start, period_end) ==
  LET requests == get_completed_requests_in_period(objects, period_start, period_end) IN
  /\ archive.pc = "idle"
  /\ period_start <= period_end
  /\ resp' = Response("create_archive", 0, "listed",
                      <<period_start, period_end, requests>>)
  /\ archive' = IF requests = {} THEN [pc |-> "idle"]
                ELSE [pc |-> "listed", requests |-> requests]
  /\ UNCHANGED <<userVars, reqVars, history, writes, session,
                 objects, history_rows, now>>

\* create_archive after the report, the downloads and the zip file:
\* delete_archived_requests(requests) with the ids of the listed objects
ArchiveDelete ==
  /\ archive.pc = "listed"
  /\ history_rows' = delete_history(history_rows, archive.requests)
  /\ objects' = delete_requests(objects, archive.requests)
  /\ archive' = [pc |-> "idle"]
  /\ resp' = Response("create_archive", 0, "ok", None)
  /\ UNCHANGED <<userVars, reqVars, history, writes, session, now>>

\* the archive command running beside the web workers
NextArchive ==
  \/ Tick
  \/ \E r \in RequestIds, s \in STATUS_CHOICES : TableTransitionTo(r, s)
  \/ \E r \in RequestIds, s \in UpdateStatuses : TableUpdate(r, s)
  \/ \E s \in Times, e \in Times : ArchiveList(s, e)
  \/ ArchiveDelete

SpecArchive == Init /\ [][NextArchive]_vars


\* ---------------------------------------------- User.save run by two workers
\* user.supervisor = new_supervisor; save() up to the validation: the loop of
\* _validate_supervisor_assignment reads the stored supervisors
SaveValidate(p, user, new_supervisor) ==
  LET v == validate_supervisor_assignment(supervisor, user, new_supervisor) IN
  /\ session[p].pc = "idle"
  /\ nEdits < MaxSaves
  /\ nEdits' = nEdits + 1
  /\ writes' = <<>>
  /\ IF v # "ok"
     THEN /\ resp' = Response("save", 1, v, new_supervisor)
          /\ UNCHANGED session
     ELSE /\ session' = [session EXCEPT ![p] =
               [pc |-> "save", user |-> user, new_supervisor |-> new_supervisor]]
          /\ UNCHANGED resp
  /\ UNCHANGED <<supervisor, auditLog, reqVars, history, archiveVars>>

\* super().save(): the row of the user is written with the supervisor that
\* was validated
SaveWrite(p) ==
  /\ session[p].pc = "save"
  /\ supervisor' = [supervisor EXCEPT ![session[p].user] = session[p].new_supervisor]
  /\ session' = [session EXCEPT ![p] = NoSession]
  /\ resp' = Response("save", 0, "ok", session[p].new_supervisor)
  /\ writes' = <<>>
  /\ UNCHANGED <<auditLog, nEdits, reqVars, history, archiveVars>>

\* two workers serving supervisor writes at the same time
NextSaveRace ==
  \/ \E p \in Procs, u \in Users, n \in Users \cup {None} : SaveValidate(p, u, n)
  \/ \E p \in Procs : SaveWrite(p)

SpecSaveRace == Init /\ [][NextSaveRace]_vars

\* ------------------- RequestViewSet.reject, request_revision run by two workers
\* Request.objects.get(pk=pk): the columns of the row as the worker holds them
LoadedRequest(pc, actor) ==
  [pc |-> pc, actor |-> actor, supervisor |-> supervisor, status |-> status,
   approval_level |-> approval_level, last_approver |-> last_approver,
   current_approver |-> current_approver, revision_count |-> revision_count,
   submitted_at |-> submitted_at]

\* reject up to its atomic block: the load and the checks on the loaded object
RejectLoad(p, actor) ==
  LET next_approver == get_next_approver(supervisor, created_by, status, current_approver) IN
  /\ session[p].pc = "idle"
  /\ IF status \notin {"pending", "in_review", "approved", "purchasing"}
     THEN Fail(Response("reject", 400, "bad_status", None))
     ELSE IF next_approver # actor /\ ~is_superuser(actor)
     THEN Fail(Response("reject", 403, "not_authorized", None))
     ELSE /\ Len(history) < MaxRaceRows
          /\ session' = [session EXCEPT ![p] = LoadedRequest("reject", actor)]
          /\ UNCHANGED <<userVars, reqVars, history, writes, resp, archiveVars>>

\* the atomic block of reject: transition_to on the loaded object, whose
\* save() writes every column back, then the history row
RejectCommit(p) ==
  LET o == session[p] IN
  /\ o.pc = "reject"
  /\ session' = [session EXCEPT ![p] = NoSession]
  /\ IF ~can_transition_to(o.status, "rejected")
     THEN /\ resp' = InvalidTransition("reject", 400, o.status, "rejected")
          /\ writes' = <<>>
          /\ UNCHANGED <<userVars, reqVars, history, archiveVars>>
     ELSE /\ status' = "rejected"
          /\ approval_level' = o.approval_level
          /\ last_approver' = o.last_approver
          /\ current_approver' = o.current_approver
          /\ revision_count' = o.revision_count
          /\ submitted_at' = o.submitted_at
          /\ history' = Append(history,
                transition_row(o.supervisor, created_by, "rejected", o.actor))
          /\ writes' = <<"rejected">>
          /\ resp' = Response("reject", 200, "ok", None)
          /\ UNCHANGED <<userVars, created_by, archiveVars>>

\* request_revision up to its atomic block
RequestRevisionLoad(p, actor) ==
  LET next_approver == get_next_approver(supervisor, created_by, status, current_approver) IN
  /\ session[p].pc = "idle"
  /\ IF next_approver # actor /\ ~is_superuser(actor)
     THEN Fail(Response("request_revision", 403, "not_authorized", None))
     ELSE IF status \notin {"pending", "in_review"}
     THEN Fail(Response("request_revision", 400, "bad_status", None))
     ELSE /\ Len(history) < MaxRaceRows
          /\ revision_count < MaxRevisions
          /\ session' = [session EXCEPT ![p] = LoadedRequest("request_revision", actor)]
          /\ UNCHANGED <<userVars, reqVars, history, writes, resp, archiveVars>>

\* the atomic block of request_revision: transition_to, then the count of the
\* loaded object plus one is saved
RequestRevisionCommit(p) ==
  LET o == session[p] IN
  /\ o.pc = "request_revision"
  /\ session' = [session EXCEPT ![p] = NoSession]
  /\ IF ~can_transition_to(o.status, "revision_requested")
     THEN /\ resp' = InvalidTransition("request_revision", 400, o.status,
                                       "revision_requested")
          /\ writes' = <<>>
          /\ UNCHANGED <<userVars, reqVars, history, archiveVars>>
     ELSE /\ status' = "revision_requested"
          /\ approval_level' = o.approval_level
          /\ last_approver' = o.last_approver
          /\ current_approver' = o.current_approver
          /\ revision_count' = o.revision_count + 1
          /\ submitted_at' = o.submitted_at
          /\ history' = Append(history,
                transition_row(o.supervisor, created_by, "revision_requested", o.actor))
          /\ writes' = <<"revision_requested">>
          /\ resp' = Response("request_revision", 200, "ok", None)
          /\ UNCHANGED <<userVars, created_by, archiveVars>>

\* approve loaded while the history is short enough to be explored
ApproveLoadRace(p, actor) ==
  /\ Len(history) < MaxRaceRows
  /\ ApproveLoad(p, actor)

\* two workers serving approve, reject and request_revision at the same time
NextRace ==
  \/ \E a \in Users : Submit(a)
  \/ \E p \in Procs, a \in Users : ApproveLoadRace(p, a)
  \/ \E p \in Procs : ApproveCommit(p)
  \/ \E p \in Procs, a \in Users : RejectLoad(p, a)
  \/ \E p \in Procs : RejectCommit(p)
  \/ \E p \in Procs, a \in Users : RequestRevisionLoad(p, a)
  \/ \E p \in Procs : RequestRevisionCommit(p)

SpecRace == Init /\ [][NextRace]_vars

\* one worker serving approve calls while the hierarchy is being edited
ReorgProcs == {1}

NextApproveReorg ==
  \/ \E a \in Users : Submit(a)
  \/ \E p \in ReorgProcs, a \in Users : ApproveLoad(p, a)
  \/ \E p \in ReorgProcs : ApproveCommit(p)
  \/ \E e \in Reorganisations : ChangeSupervisor(e[1], e[2])

SpecApproveReorg == Init /\ [][NextApproveReorg]_vars

\* ================================================================== claims
chain == get_approval_chain(supervisor, created_by)

NextApprover == get_next_approver(supervisor, created_by, status, current_approver)

\* the rows written since the last 'submitted' row
RECURSIVE CycleRows(_)
CycleRows(h) ==
  IF h = <<>> THEN <<>>
  ELSE IF h[Len(h)].action = "submitted" THEN <<>>
  ELSE Append(CycleRows(SubSeq(h, 1, Len(h) - 1)), h[Len(h)])

IsApprovalRow(row) == row.action \in {"approved", "final_approved"}

ApprovalRows(h) == SelectSeq(CycleRows(h), IsApprovalRow)

\* the transition table of the design document
TransitionTable ==
  { <<"draft", "pending">>,
    <<"pending", "in_review">>, <<"pending", "approved">>,
    <<"pending", "rejected">>, <<"pending", "revision_requested">>,
    <<"in_review", "in_review">>, <<"in_review", "approved">>,
    <<"in_review", "rejected">>, <<"in_review", "revision_requested">>,
    <<"revision_requested", "pending">>,
    <<"approved", "purchasing">>, <<"approved", "rejected">>,
    <<"purchasing", "ordered">>, <<"purchasing", "rejected">>,
    <<"purchasing", "revision_requested">>,
    <<"ordered", "delivered">>,
    <<"delivered", "completed">> }

\* C1: when no approve call is in progress, approval_level equals the number
\* of approve calls that succeeded since the submission, and no two approval
\* rows of the submission cycle carry the same level.
C1_OneApprovalPerLevel ==
  (\A p \in Procs : session[p].pc = "idle") =>
     LET rows == ApprovalRows(history) IN
     /\ approval_level = Len(rows)
     /\ \A i, j \in 1..Len(rows) : i # j => rows[i].level # rows[j].level

C3_ChainOfApprovals ==
  (nEdits = 0 /\ revision_count = 0 /\ Len(chain) >= 1) =>
     /\ status = "pending" =>
          approval_level = 0 /\ NextApprover = chain[1]
     /\ status = "in_review" =>
          /\ approval_level \in 1..(Len(chain) - 1)
          /\ NextApprover = chain[approval_level + 1]
     /\ status = "approved" =>
          approval_level = Len(chain) /\ NextApprover = None

\* C4: the statuses a call assigns to the request, starting from the status
\* it found, change only along pairs of the transition table; a draft only
\* becomes pending, and rejected and completed are never left.
C4_TableOnly ==
  [][LET path == <<status>> \o writes' IN
     /\ status' = path[Len(path)]
     /\ \A i \in 1..(Len(path) - 1) :
          path[i] # path[i + 1] => <<path[i], path[i + 1]>> \in TransitionTable
     /\ (status = "draft" /\ status' # status) => status' = "pending"
     /\ status \in {"rejected", "completed"} => status' = status]_vars

\* mark_purchased took an approved request through purchasing to ordered
C4_Witness ==
  /\ resp.op = "mark_purchased" /\ resp.code = 200
  /\ writes = <<"purchasing", "ordered">> /\ status = "ordered"

\* C5: transition_to with a pair outside the transition table raises the
\* error naming the current and the requested status and leaves status,
\* current_approver and history as they were.
C5_InvalidTransitionRaises ==
  [][\A s \in STATUS_CHOICES, u \in ApiUsers :
       (<<status, s>> \notin TransitionTable /\ TransitionTo(s, u))
       => /\ resp'.op = "transition_to" /\ resp'.code = 1
          /\ resp'.error = "invalid_transition"
          /\ resp'.from = status /\ resp'.to = s
          /\ UNCHANGED <<status, current_approver, history>>]_vars

\* a call on a submitted request was refused
C5_Witness ==
  /\ resp.op = "transition_to" /\ resp.error = "invalid_transition"
  /\ resp.from = "pending" /\ resp.to = "completed"
  /\ status = "pending" /\ Len(history) = 1

\* C6: right after a successful submit the request is pending with
\* approval_level 0 and no last approver.
C6_SubmitResets ==
  (resp.op = "submit" /\ resp.code = 200) =>
     status = "pending" /\ approval_level = 0 /\ last_approver = None

\* C7: submit succeeds exactly for the creator on a draft or
\* revision_requested request; every other submit is refused and leaves
\* status, approval_level, last_approver, submitted_at and history unchanged.
C7_SubmitGuard ==
  [][\A a \in Users :
       Submit(a) =>
         IF a = created_by /\ status \in {"draft", "revision_requested"}
         THEN resp'.code = 200 /\ status' = "pending"
         ELSE /\ resp'.op = "submit" /\ resp'.code \in {400, 403, 404}
              /\ UNCHANGED <<status, approval_level, last_approver,
                             submitted_at, history>>]_vars

\* a submit by a superuser who is not the creator was refused
C7_Witness ==
  /\ resp.op = "submit" /\ resp.code = 403 /\ resp.error = "not_creator"
  /\ status = "draft" /\ history = <<>>

\* C8: get_next_approver is the chain member at index approval_level, and
\* nothing when approval_level is not below the chain length.
C8_NextApproverByLevel ==
  NextApprover = IF approval_level < Len(chain)
                 THEN chain[approval_level + 1] ELSE None

\* C9: a step that changes a supervisor leaves the request's status,
\* approval_level, last_approver, revision_count and history unchanged.
C9_ReorgKeepsRequest ==
  [][supervisor' # supervisor =>
       UNCHANGED <<status, approval_level, last_approver, revision_count,
                   history>>]_vars

\* a supervisor was changed while the request was under review
C9_Witness ==
  /\ resp.op \in {"change_supervisor", "save"} /\ resp.error = "ok"
  /\ supervisor # InitialSupervisor
  /\ status = "in_review" /\ approval_level >= 1

\* C10: when a user s is inserted into the creator's chain at index
\* approval_level of an in_review request, get_next_approver returns s at
\* once and an approve by the user formerly at that index is refused.
C10_InsertedApproverIsNext ==
  [][\A s \in Users :
       LET k == approval_level
           newChain == get_approval_chain(supervisor', created_by) IN
       (/\ status = "in_review" /\ k >= 1 /\ Len(chain) > k
        /\ supervisor' # supervisor
        /\ newChain = SubSeq(chain, 1, k) \o <<s>> \o SubSeq(chain, k + 1, Len(chain)))
       => /\ get_next_approver(supervisor', created_by, status', current_approver') = s
          /\ approve_refusal(supervisor', created_by, status', current_approver',
                             chain[k + 1]).code = 403]_vars

\* C11: saving user a with supervisor b, or change_supervisor(a, b), when
\* b = a or a is reachable from b along supervisor edges, raises the error for
\* self-supervision or circular supervision and leaves the stored supervisors,
\* the audit log, the request and its history unchanged.
C11_CircularAssignmentRefused ==
  [][\A a, b \in Existing(supervisor) :
       (/\ resp'.op \in {"save", "change_supervisor"}
        /\ b = a \/ Reaches(supervisor, b, a)
        /\ SaveUser(a, b) \/ ChangeSupervisor(a, b))
       => /\ resp'.code = 1
          /\ resp'.error \in {"self_supervision", "circular"}
          /\ UNCHANGED <<supervisor, auditLog, created_by, status,
                         approval_level, last_approver, current_approver,
                         revision_count, submitted_at, history>>]_vars

\* a user two levels above E was refused E as supervisor
C11_Witness ==
  /\ resp.op = "change_supervisor" /\ resp.code = 1 /\ resp.error = "circular"
  /\ resp.expected = "E" /\ supervisor["E"] = "M" /\ supervisor["M"] = "C"
  /\ supervisor["C"] = None /\ supervisor["D"] = None /\ auditLog = <<>>

\* C12: after any sequence of user creations, saves, change_supervisor and
\* remove_supervisor calls on an acyclic hierarchy, no user is reachable from
\* itself along supervisor edges.
C12_HierarchyAcyclic == Acyclic(supervisor)

\* the new user was created under E, and E keeps its chain of three
C12_Witness ==
  /\ resp.op = "create_user" /\ resp.error = "ok"
  /\ supervisor[NewUser] = "E" /\ Len(chain) = 3

\* the i-th supervisor above u, None once the top was passed
RECURSIVE SupPower(_, _, _)
SupPower(sup, u, i) ==
  IF i = 0 THEN u
  ELSE LET below == SupPower(sup, u, i - 1) IN
       IF below = None THEN None ELSE sup[below]

\* supervisor(u), supervisor(supervisor(u)), ... up to the first user without
\* a supervisor
SupervisorsAbove(sup, u) ==
  LET n == CHOOSE k \in 0..Cardinality(Users) :
             /\ SupPower(sup, u, k + 1) = None
             /\ \A j \in 1..k : SupPower(sup, u, j) # None
  IN [i \in 1..n |-> SupPower(sup, u, i)]

\* C13: get_approval_chain returns on every stored graph, a graph with a
\* supervisor cycle above the creator included, and what it returns is the
\* chain collected up to the first user met a second time.
C13_ChainTerminates ==
  resp.op = "get_approval_chain" =>
     /\ resp.code = 0
     /\ resp.expected = HierarchyWalk(supervisor, supervisor[created_by], {})

\* C14: on an acyclic hierarchy get_approval_chain returns the supervisors
\* above the creator up to the first user without a supervisor; the creator
\* is not in it, no user is in it twice, it is empty when the creator has no
\* supervisor, and it is get_hierarchy_chain(creator) without its first element.
C14_ChainIsSupervisorsAbove ==
  resp.op = "get_approval_chain" =>
     LET c == resp.expected IN
     /\ resp.code = 0
     /\ c = SupervisorsAbove(supervisor, created_by)
     /\ created_by \notin Range(c)
     /\ \A i, j \in 1..Len(c) : i # j => c[i] # c[j]
     /\ supervisor[created_by] = None => c = <<>>
     /\ c = Tail(get_hierarchy_chain(supervisor, created_by))

\* the chain of three was computed after the hierarchy was edited
C14_Witness ==
  /\ resp.op = "get_approval_chain" /\ Len(resp.expected) = 3
  /\ nEdits = 1 /\ auditLog # <<>>

\* C15: a successful approve, by the next approver or by a superuser, raises
\* approval_level by exactly 1 and sets last_approver to the actor, and no
\* other call raises approval_level.
C15_ApproveCountsOnce ==
  [][/\ \A a \in Users :
          (resp'.op = "approve" /\ resp'.code = 200 /\ Approve(a))
          => approval_level' = approval_level + 1 /\ last_approver' = a
     /\ approval_level' > approval_level
          => /\ resp'.op = "approve" /\ resp'.code = 200
             /\ approval_level' = approval_level + 1]_vars

\* a superuser outside the chain approved a request under review
C15_Witness ==
  /\ resp.op = "approve" /\ resp.code = 200
  /\ last_approver = "A" /\ approval_level = 2 /\ status = "in_review"

C17_ApproveRow ==
  [][\A a \in Users :
       (resp'.op = "approve" /\ resp'.code = 200 /\ Approve(a))
       => /\ Len(history') = Len(history) + 1
          /\ SubSeq(history', 1, Len(history)) = history
          /\ LET row == history'[Len(history')] IN
             /\ row.user = a
             /\ row.action = IF status' = "approved" THEN "final_approved"
                             ELSE "approved"
             /\ row.level = approval_level']_vars

\* C18 as stated: approve on a request that is neither pending nor in_review
\* changes nothing; it is answered 'already fully approved' when the status is
\* approved and with a bad-request error for every other status, draft
\* included.
C18_BadStatusIsBadRequest ==
  [][\A a \in Users :
       (/\ status \notin {"pending", "in_review"}
        /\ resp'.op = "approve" /\ Approve(a))
       => /\ resp'.op = "approve"
          /\ UNCHANGED <<reqVars, history>>
          /\ status = "approved" => resp'.error = "already_fully_approved"
          /\ status # "approved" => resp'.code = 400 /\ resp'.error = "bad_status"]_vars

\* C18 amended: such an approve changes nothing; it is answered 403 'already
\* fully approved' when the status is approved, 403 'must be submitted first'
\* when it is draft, and 400 for every other status.
C18_BadStatusRefused ==
  [][\A a \in Users :
       (/\ status \notin {"pending", "in_review"}
        /\ resp'.op = "approve" /\ Approve(a))
       => /\ resp'.op = "approve"
          /\ UNCHANGED <<reqVars, history>>
          /\ status = "approved" =>
               resp'.code = 403 /\ resp'.error = "already_fully_approved"
          /\ status = "draft" => resp'.code = 403 /\ resp'.error = "draft"
          /\ status \notin {"approved", "draft"} =>
               resp'.code = 400 /\ resp'.error = "bad_status"]_vars

\* an approve of an ordered request was answered 400
C18_Witness ==
  /\ resp.op = "approve" /\ resp.code = 400 /\ resp.error = "bad_status"
  /\ status = "ordered"

\* C20: a request_revision succeeds only on a pending or in_review request for
\* the next approver or a superuser; it then sets the status to
\* revision_requested and raises revision_count by 1 with approval_level and
\* last_approver unchanged; a refused request_revision changes nothing.
C20_RevisionKeepsLevel ==
  [][\A a \in Users :
       (resp'.op = "request_revision" /\ RequestRevision(a)) =>
         IF resp'.code = 200
         THEN /\ status \in {"pending", "in_review"}
              /\ a = NextApprover \/ is_superuser(a)
              /\ status' = "revision_requested"
              /\ revision_count' = revision_count + 1
              /\ UNCHANGED <<approval_level, last_approver>>
         ELSE UNCHANGED <<reqVars, history>>]_vars

\* a revision was requested after one approval
C20_Witness ==
  /\ resp.op = "request_revision" /\ resp.code = 200
  /\ status = "revision_requested" /\ revision_count = 1
  /\ approval_level = 1 /\ last_approver # None

\* C19: reject succeeds exactly when the status is pending, in_review,
\* approved or purchasing and the actor is the next approver, or a superuser,
\* or, for a request in purchasing, a user who can purchase; it then sets the
\* status to rejected and appends one 'rejected' row of the actor; every other
\* reject fails and changes nothing.
C19_RejectGuard ==
  [][\A a \in Users :
       (resp'.op = "reject" /\ Reject(a)) =>
         IF /\ status \in {"pending", "in_review", "approved", "purchasing"}
            /\ \/ a = NextApprover
               \/ is_superuser(a)
               \/ status = "purchasing" /\ can_purchase(a)
         THEN /\ resp'.code = 200 /\ status' = "rejected"
              /\ Len(history') = Len(history) + 1
              /\ SubSeq(history', 1, Len(history)) = history
              /\ history'[Len(history')].action = "rejected"
              /\ history'[Len(history')].user = a
         ELSE /\ resp'.op = "reject" /\ resp'.code # 200
              /\ UNCHANGED <<reqVars, history>>]_vars

\* C21: the history row appended by a successful request_revision has action
\* revision_requested and carries the request's approval_level as its level.
C21_RevisionRowLevel ==
  [][\A a \in Users :
       (resp'.op = "request_revision" /\ resp'.code = 200 /\ RequestRevision(a))
       => /\ Len(history') = Len(history) + 1
          /\ history'[Len(history')].action = "revision_requested"
          /\ history'[Len(history')].level = approval_level]_vars

\* C22: mark_purchased succeeds only for a superuser or a user who can
\* purchase and only on an approved or purchasing request; it then leaves the
\* request ordered, passing through purchasing when it was approved, and
\* appends one 'ordered' row of the actor; a refused mark_purchased leaves the
\* request and its history unchanged.
C22_MarkPurchasedGuard ==
  [][\A a \in Users :
       (resp'.op = "mark_purchased" /\ MarkPurchased(a)) =>
         IF resp'.code = 200
         THEN /\ is_superuser(a) \/ can_purchase(a)
              /\ status \in {"approved", "purchasing"}
              /\ status' = "ordered"
              /\ status = "approved" => writes' = <<"purchasing", "ordered">>
              /\ status = "purchasing" => writes' = <<"ordered">>
              /\ Len(history') = Len(history) + 1
              /\ SubSeq(history', 1, Len(history)) = history
              /\ history'[Len(history')].action = "ordered"
              /\ history'[Len(history')].user = a
         ELSE UNCHANGED <<reqVars, history>>]_vars

\* a request stored as purchasing was marked purchased
C22_Witness ==
  /\ resp.op = "mark_purchased" /\ resp.code = 200
  /\ writes = <<"ordered">> /\ status = "ordered" /\ nEdits = 1

\* C23: mark_delivered succeeds only for a superuser or a user who can
\* purchase and only on an ordered request; it then sets the status to
\* delivered and appends one 'delivered' row of the actor; every other
\* mark_delivered fails and leaves the request and its history unchanged.
C23_MarkDeliveredGuard ==
  [][\A a \in Users :
       (resp'.op = "mark_delivered" /\ MarkDelivered(a)) =>
         IF (is_superuser(a) \/ can_purchase(a)) /\ status = "ordered"
         THEN /\ resp'.code = 200 /\ status' = "delivered"
              /\ Len(history') = Len(history) + 1
              /\ SubSeq(history', 1, Len(history)) = history
              /\ history'[Len(history')].action = "delivered"
              /\ history'[Len(history')].user = a
         ELSE /\ resp'.code \in {400, 403}
              /\ UNCHANGED <<reqVars, history>>]_vars

\* the purchaser marked an ordered request as delivered
C23_Witness ==
  /\ resp.op = "mark_delivered" /\ resp.code = 200 /\ status = "delivered"
  /\ history[Len(history)].user = "D"

\* C24: mark_completed on a delivered request sets the status to completed
\* and appends one 'completed' row of the actor; on a request in any other
\* status it fails and changes nothing.
C24_MarkCompleted ==
  [][\A a \in Users :
       (resp'.op = "mark_completed" /\ MarkCompleted(a)) =>
         IF status = "delivered"
         THEN /\ status' = "completed"
              /\ Len(history') = Len(history) + 1
              /\ history'[Len(history')].action = "completed"
         ELSE /\ resp'.code # 200
              /\ UNCHANGED <<reqVars, history>>]_vars

\* the calls that are operations of the workflow
Handlers ==
  {"submit", "approve", "reject", "request_revision", "mark_purchased",
   "mark_delivered"}

\* C25: a call of the workflow that changes the status appends the history
\* row of that change in the same step, a history row is only written by a
\* call that succeeded, and a call that ended in a database error between the
\* save of the request and the insert of the row leaves both unchanged.
C25_NeverPartial ==
  [][/\ (resp'.op \in Handlers /\ status' # status)
          => /\ Len(history') = Len(history) + 1
             /\ SubSeq(history', 1, Len(history)) = history
             /\ history'[Len(history')].action = action_map(status')
     /\ history' # history => resp'.op \in Handlers /\ resp'.code = 200
     /\ (resp'.op \in Handlers /\ resp'.code # 200)
          => UNCHANGED <<reqVars, history>>]_vars

\* the insert of the 'ordered' row failed on an approved request
C25_Witness ==
  /\ resp.op = "mark_purchased" /\ resp.code = 500
  /\ status = "approved" /\ history[Len(history)].action = "final_approved"

\* C26: every step keeps the rows of the history as they are and in their
\* place; new rows are only added after them.
C26_HistoryAppendOnly ==
  [][/\ Len(history') >= Len(history)
     /\ SubSeq(history', 1, Len(history)) = history]_vars

\* a revised request was submitted again and keeps its earlier rows
C26_Witness ==
  /\ resp.op = "submit" /\ resp.code = 200 /\ revision_count = 1
  /\ Len(history) >= 3 /\ history[1].action = "submitted"
  /\ history[Len(history)].action = "submitted"

\* C27: status, approval_level and last_approver only change in a step of
\* submit, approve, reject, request_revision, mark_purchased or
\* mark_delivered; the generic update leaves them as they are.
C27_OnlyWorkflowWrites ==
  [][(status' # status \/ approval_level' # approval_level
        \/ last_approver' # last_approver)
       => resp'.op \in Handlers /\ resp'.code = 200]_vars

\* C29: a successful submit sets submitted_at, makes the request pending and
\* appends, in the same step, exactly one row with action submitted, the
\* creator as user and level 0.
C29_SubmitRow ==
  [][\A a \in Users :
       (resp'.op = "submit" /\ resp'.code = 200 /\ Submit(a))
       => /\ status' = "pending"
          /\ submitted_at' # 0 /\ submitted_at' # submitted_at
          /\ Len(history') = Len(history) + 1
          /\ SubSeq(history', 1, Len(history)) = history
          /\ history'[Len(history')] =
               [user |-> created_by, action |-> "submitted", level |-> 0]]_vars

\* a request was submitted a second time, after a change of the hierarchy
C29_Witness ==
  /\ resp.op = "submit" /\ resp.code = 200 /\ submitted_at = 2
  /\ supervisor # InitialSupervisor /\ status = "pending"

\* C30: the request is in a user's pending approvals exactly when it is
\* pending or in_review and the user is its next approver; after a successful
\* approve that leaves it in_review the approver no longer has it in the
\* list, and the chain member at the new approval_level has it.
C30_ListedForNextApprover ==
  [][/\ resp'.op = "pending_approvals"
          => resp'.expected[2] =
               (status' \in {"pending", "in_review"} /\ resp'.expected[1] = NextApprover')
     /\ \A a \in Users :
          (/\ resp'.op = "approve" /\ resp'.code = 200 /\ Approve(a)
           /\ status' = "in_review")
          => /\ ~pending_approvals(supervisor', created_by, status',
                                   current_approver', a)
             /\ pending_approvals(supervisor', created_by, status',
                                  current_approver', chain[approval_level' + 1])]_vars

\* C28: list_completed_in_period(start, end) returns exactly the completed
\* requests updated in [start, end], and the deletion of a create_archive run
\* removes exactly the requests it listed, all of them completed, together
\* with all their history rows
C28_ArchiveOnlyCompleted ==
  [][/\ \A s \in Times, e \in Times :
          (resp'.error = "listed" /\ ArchiveList(s, e)) =>
            resp'.expected[3] =
              {r \in DOMAIN objects : /\ objects[r].status = "completed"
                                      /\ s <= objects[r].updated_at
                                      /\ objects[r].updated_at <= e}
     /\ (archive.pc = "listed" /\ ArchiveDelete) =>
          LET deleted == (DOMAIN objects) \ (DOMAIN objects') IN
          /\ deleted = archive.requests
          /\ \A r \in deleted : objects[r].status = "completed"
          /\ \A r \in RequestIds \ (DOMAIN objects') : history_rows'[r] = 0
          /\ archive.requests \cap (DOMAIN objects') = {}]_vars

\* C31: change_supervisor(new) with new equal to the current supervisor
\* returns False, writes no audit row and leaves the graph as it is; a call
\* that succeeds returns True, stores the new edge and writes exactly one
\* audit row, after which the same call again would be the call that changes
\* nothing.
C31_ChangeSupervisorOnce ==
  [][\A u \in Existing(supervisor), n \in Existing(supervisor) \cup {None} :
       (resp'.op = "change_supervisor" /\ ChangeSupervisor(u, n)) =>
         IF supervisor[u] = n
         THEN /\ resp'.error = "no_change"
              /\ auditLog' = auditLog
              /\ supervisor' = supervisor
         ELSE /\ resp'.error # "no_change"
              /\ resp'.error = "ok" =>
                   /\ supervisor' = [supervisor EXCEPT ![u] = n]
                   /\ Len(auditLog') = Len(auditLog) + 1
                   /\ auditLog'[Len(auditLog')].user = u
                   /\ auditLog'[Len(auditLog')].new = n
                   /\ supervisor'[u] = n
              /\ resp'.error # "ok" => UNCHANGED <<supervisor, auditLog>>]_vars

\* a supervisor was changed and one audit row written
C31_Witness ==
  /\ resp.op = "change_supervisor" /\ resp.error = "ok"
  /\ Len(auditLog) = 1 /\ auditLog[1].action = "supervisor_changed"
  /\ supervisor[auditLog[1].user] = auditLog[1].new

\* C32: whatever the interleaving of two supervisor writes that were each
\* validated against the stored hierarchy, no user of the stored hierarchy is
\* reachable from itself along supervisor edges.
C32_AcyclicUnderRace ==
  \A u \in Users : supervisor[u] # None => ~Reaches(supervisor, u, u)

\* C33: a rejected request stays rejected and keeps its approval_level, and a
\* request in revision_requested leaves that status only by a submit and
\* keeps its approval_level until then, also when calls that loaded the
\* request earlier write afterwards.
C33_BackwardMovesStick ==
  [][/\ status = "rejected" =>
          status' = "rejected" /\ approval_level' = approval_level
     /\ status = "revision_requested" =>
          /\ approval_level' = approval_level
          /\ status' # "revision_requested" =>
               status' = "pending" /\ resp'.op = "submit"]_vars

C35_CreatorNeverApproves ==
  [][/\ (NextApprover = created_by /\ ~is_superuser(created_by))
          => ~Acyclic(supervisor)
     /\ (/\ resp'.op \in {"approve", "reject", "request_revision"}
         /\ ~is_superuser(created_by)
         /\ \/ Approve(created_by)
            \/ Reject(created_by)
            \/ RequestRevision(created_by))
        => \/ /\ resp'.code \in {400, 403}
              /\ UNCHANGED <<reqVars, history>>
           \/ ~Acyclic(supervisor)]_vars

\* after a supervisor edit the pending request is routed to somebody else
\* and an approve was refused naming that user
C35_Witness ==
  /\ status = "pending" /\ nEdits = 1
  /\ resp.op = "approve" /\ resp.code = 403 /\ resp.error = "pending_from"
  /\ resp.expected = NextApprover /\ NextApprover # created_by

C37_ApprovedHasNoApprover ==
  status \in {"approved", "purchasing", "ordered", "delivered", "completed"} =>
    /\ NextApprover = None
    /\ is_fully_approved(supervisor, created_by, approval_level)

\* C38: revision_count is the number of history rows of the request with
\* action revision_requested, also when request_revision calls are served at
\* the same time.
C38_RevisionCountMatchesRows ==
  revision_count =
    Cardinality({i \in 1..Len(history) : history[i].action = "revision_requested"})

\* C39: approval_level is the number of approved and final_approved rows
\* written after the latest submitted row, and last_approver is null exactly
\* when there is no such row.
C39_LevelCountsCycleApprovals ==
  /\ approval_level \in Nat
  /\ approval_level = Len(ApprovalRows(history))
  /\ last_approver = None <=> Len(ApprovalRows(history)) = 0

====
